---- MODULE Spec2Model ----
(***************************************************************************)
(* Request parameter structs of api/types/chat.rs and their wire form.     *)
(*                                                                         *)
(* Every struct derives Serialize and Deserialize; the per-field           *)
(* attributes (skip_serializing_if, default, with) decide which keys are   *)
(* written and what a missing key decodes to.  The model keeps one table   *)
(* per struct, line for line with the declaration, and two operators,      *)
(* Encode and Decode, that do what the derived impls do with such a table. *)
(***************************************************************************)
EXTENDS Integers, Sequences, FiniteSets, TLC

(***************************************************************************)
(* Bounds of the explored inputs.                                          *)
(***************************************************************************)
\* chat_id, user_id, message_id, dates and limits range over 0..MaxId
MaxId == 1
\* a request value has at most MaxPresent optional fields present, or all
MaxPresent == 2
\* a received payload deviates from a complete one in at most MaxDeviate keys
MaxDeviate == 2
\* an update payload populates at most MaxPopulated discriminating fields
MaxPopulated == 3

(***************************************************************************)
(* Limits the doc comments state (and the code never reads).               *)
(***************************************************************************)
TitleMax == 255
DescriptionMax == 255
CustomTitleMax == 16
MemberLimitMax == 99999

(***************************************************************************)
(* Rust values and JSON values share one record shape, so that any two of  *)
(* them can be compared: a tag, an integer, a sub-second part (DateTime    *)
(* only) and a string (a sequence of character codes).                     *)
(***************************************************************************)
Val(t, n, u, s) == [tag |-> t, num |-> n, sub |-> u, str |-> s]

None == Val("none", 0, 0, <<>>)
I64(n) == Val("i64", n, 0, <<>>)
I32(n) == Val("i32", n, 0, <<>>)
Bool(b) == Val("bool", IF b THEN 1 ELSE 0, 0, <<>>)
String(s) == Val("String", 0, 0, s)
\* DateTime<Utc>: seconds since the epoch and the nanoseconds within the second
DateTime(secs, nanos) == Val("DateTime", secs, nanos, <<>>)
\* ChatPermissions is declared in model/chat.rs; here an opaque object k
ChatPermissions(k) == Val("ChatPermissions", k, 0, <<>>)

JNull == Val("null", 0, 0, <<>>)
JNumber(n) == Val("number", n, 0, <<>>)
JBool(b) == Val("boolean", IF b THEN 1 ELSE 0, 0, <<>>)
JString(s) == Val("string", 0, 0, s)
JObject(k) == Val("object", k, 0, <<>>)

\* the two ways a field fails to decode
InvalidType == Val("invalid_type", 0, 0, <<>>)
MissingField == Val("missing_field", 0, 0, <<>>)

(***************************************************************************)
(* Field declarations.  opt: the type is Option<ty>; skip: the field has   *)
(* skip_serializing_if = "Option::is_none"; dflt: it has serde(default);   *)
(* with: it has serde(with = "unix_date_formatting::optional").            *)
(***************************************************************************)
Field(n, t, o, s, d, w) ==
    [name |-> n, ty |-> t, opt |-> o, skip |-> s, dflt |-> d, with |-> w]

Req(n, t) == Field(n, t, FALSE, FALSE, FALSE, FALSE)
OptSkip(n, t) == Field(n, t, TRUE, TRUE, FALSE, FALSE)
OptPlain(n, t) == Field(n, t, TRUE, FALSE, FALSE, FALSE)

KickChatMember ==
    << Req("chat_id", "i64"),
       Req("user_id", "i64"),
       OptSkip("until_date", "i64"),
       OptSkip("revoke_messages", "bool") >>

\* only_if_banned without serde(default)
UnbanChatMemberNoDefault ==
    << Req("chat_id", "i64"),
       Req("user_id", "i64"),
       Req("only_if_banned", "bool") >>

UnbanChatMember ==
    << Req("chat_id", "i64"),
       Req("user_id", "i64"),
       Field("only_if_banned", "bool", FALSE, FALSE, TRUE, FALSE) >>

RestrictChatMember ==
    << Req("chat_id", "i64"),
       Req("user_id", "i64"),
       Req("permissions", "ChatPermissions"),
       Field("until_date", "DateTime", TRUE, TRUE, FALSE, TRUE) >>

PromoteChatMember ==
    << Req("chat_id", "i64"),
       Req("user_id", "i64"),
       OptSkip("is_anonymous", "bool"),
       OptSkip("can_post_messages", "bool"),
       OptSkip("can_edit_messages", "bool"),
       OptSkip("can_delete_messages", "bool"),
       OptSkip("can_restrict_members", "bool"),
       OptSkip("can_promote_members", "bool"),
       OptSkip("can_change_info", "bool"),
       OptSkip("can_invite_users", "bool"),
       OptSkip("can_pin_messages", "bool"),
       OptSkip("can_manage_voice_chats", "bool"),
       OptSkip("can_manage_chat", "bool") >>

SetChatAdministratorCustomTitle ==
    << Req("chat_id", "i64"),
       Req("user_id", "i64"),
       Req("custom_title", "String") >>

SetChatPermissions ==
    << Req("chat_id", "i64"),
       Req("permissions", "ChatPermissions") >>

ExportChatInviteLink == << Req("chat_id", "i64") >>

DeleteChatPhoto == << Req("chat_id", "i64") >>

SetChatTitle ==
    << Req("chat_id", "i64"),
       Req("title", "String") >>

SetChatDescription ==
    << Req("chat_id", "i64"),
       OptSkip("description", "String") >>

PinChatMessage ==
    << Req("chat_id", "i64"),
       Req("message_id", "i64"),
       Req("disable_notification", "bool") >>

UnpinChatMessage ==
    << Req("chat_id", "i64"),
       OptSkip("message_id", "i64") >>

UnpinAllChatMessages == << Req("chat_id", "i64") >>

LeaveChat == << Req("chat_id", "i64") >>

GetChat == << Req("chat_id", "i64") >>

GetChatAdministrators == << Req("chat_id", "i64") >>

GetChatMembersCount == << Req("chat_id", "i64") >>

GetChatMember ==
    << Req("chat_id", "i64"),
       Req("user_id", "i64") >>

SetChatStickerSet ==
    << Req("chat_id", "i64"),
       Req("sticker_set_name", "String") >>

DeleteChatStickerSet == << Req("chat_id", "i64") >>

CreateChatInviteLink ==
    << Req("chat_id", "i64"),
       OptPlain("expire_date", "i64"),
       OptPlain("member_limit", "i32") >>

EditChatInviteLink ==
    << Req("chat_id", "i64"),
       Req("invite_link", "String"),
       OptPlain("expire_date", "i64"),
       OptPlain("member_limit", "i32") >>

RevokeChatInviteLink ==
    << Req("chat_id", "i64"),
       Req("invite_link", "String") >>

\* the structs that impl_from_chat! is invoked for
ChatIdOnly ==
    { "ExportChatInviteLink", "DeleteChatPhoto", "UnpinAllChatMessages",
      "LeaveChat", "GetChat", "GetChatAdministrators", "GetChatMembersCount",
      "DeleteChatStickerSet" }

\* every request struct of the file but SetChatPhoto, whose photo field is an
\* InputFile (declared in api/types/input_file.rs)
Structs ==
    ChatIdOnly \cup
    { "KickChatMember", "UnbanChatMember", "RestrictChatMember",
      "PromoteChatMember", "SetChatAdministratorCustomTitle",
      "SetChatPermissions", "SetChatTitle", "SetChatDescription",
      "PinChatMessage", "UnpinChatMessage", "GetChatMember",
      "SetChatStickerSet", "CreateChatInviteLink", "EditChatInviteLink",
      "RevokeChatInviteLink" }

Fields(s) ==
    CASE s = "KickChatMember" -> KickChatMember
      [] s = "UnbanChatMember" -> UnbanChatMember
      [] s = "RestrictChatMember" -> RestrictChatMember
      [] s = "PromoteChatMember" -> PromoteChatMember
      [] s = "SetChatAdministratorCustomTitle" -> SetChatAdministratorCustomTitle
      [] s = "SetChatPermissions" -> SetChatPermissions
      [] s = "ExportChatInviteLink" -> ExportChatInviteLink
      [] s = "DeleteChatPhoto" -> DeleteChatPhoto
      [] s = "SetChatTitle" -> SetChatTitle
      [] s = "SetChatDescription" -> SetChatDescription
      [] s = "PinChatMessage" -> PinChatMessage
      [] s = "UnpinChatMessage" -> UnpinChatMessage
      [] s = "UnpinAllChatMessages" -> UnpinAllChatMessages
      [] s = "LeaveChat" -> LeaveChat
      [] s = "GetChat" -> GetChat
      [] s = "GetChatAdministrators" -> GetChatAdministrators
      [] s = "GetChatMembersCount" -> GetChatMembersCount
      [] s = "GetChatMember" -> GetChatMember
      [] s = "SetChatStickerSet" -> SetChatStickerSet
      [] s = "DeleteChatStickerSet" -> DeleteChatStickerSet
      [] s = "CreateChatInviteLink" -> CreateChatInviteLink
      [] s = "EditChatInviteLink" -> EditChatInviteLink
      [] s = "RevokeChatInviteLink" -> RevokeChatInviteLink

FieldSet(s) == { Fields(s)[i] : i \in 1..Len(Fields(s)) }
Names(s) == { f.name : f \in FieldSet(s) }
FieldOf(s, n) == CHOOSE f \in FieldSet(s) : f.name = n
OptionalNames(s) == { f.name : f \in { g \in FieldSet(s) : g.opt } }
RequiredNames(s) == { f.name : f \in { g \in FieldSet(s) : ~g.opt /\ ~g.dflt } }

(***************************************************************************)
(* unix_date_formatting::optional (model/utils.rs): a date goes on the     *)
(* wire as its unix timestamp, whole seconds; None goes as null.           *)
(***************************************************************************)
UnixDateOptionalSerialize(v) ==
    IF v.tag = "none" THEN JNull ELSE JNumber(v.num)

UnixDateOptionalDeserialize(j) ==
    CASE j.tag = "null" -> None
      [] j.tag = "number" -> DateTime(j.num, 0)
      [] OTHER -> InvalidType

(***************************************************************************)
(* Serialize, as derived.                                                  *)
(***************************************************************************)
\* a string over the longest documented limit is cut to it
SerializeValueClamped(v) ==
    CASE v.tag = "none" -> JNull
      [] v.tag \in {"i64", "i32"} -> JNumber(v.num)
      [] v.tag = "bool" -> JBool(v.num = 1)
      [] v.tag = "String" ->
            JString(IF Len(v.str) > TitleMax THEN SubSeq(v.str, 1, TitleMax) ELSE v.str)
      [] v.tag = "ChatPermissions" -> JObject(v.num)

SerializeValue(v) ==
    CASE v.tag = "none" -> JNull
      [] v.tag \in {"i64", "i32"} -> JNumber(v.num)
      [] v.tag = "bool" -> JBool(v.num = 1)
      [] v.tag = "String" -> JString(v.str)
      [] v.tag = "ChatPermissions" -> JObject(v.num)

SerializeField(f, v) ==
    IF f.with THEN UnixDateOptionalSerialize(v) ELSE SerializeValue(v)

\* a skip predicate that also takes false, 0 and "" for unset
SkippedIfFalsy(f, v) ==
    f.skip /\ (v.tag = "none" \/ (v.num = 0 /\ v.str = << >>))

\* skip_serializing_if = "Option::is_none"
Skipped(f, v) == f.skip /\ v.tag = "none"

Encode(s, x) ==
    LET emitted == { f \in FieldSet(s) : ~Skipped(f, x[f.name]) }
    IN  [ k \in { f.name : f \in emitted } |-> SerializeField(FieldOf(s, k), x[k]) ]

(***************************************************************************)
(* Deserialize, as derived.                                                *)
(***************************************************************************)
DeserializeValue(ty, j) ==
    CASE ty = "i64" -> IF j.tag = "number" THEN I64(j.num) ELSE InvalidType
      [] ty = "i32" -> IF j.tag = "number" THEN I32(j.num) ELSE InvalidType
      [] ty = "bool" -> IF j.tag = "boolean" THEN Bool(j.num = 1) ELSE InvalidType
      [] ty = "String" -> IF j.tag = "string" THEN String(j.str) ELSE InvalidType
      [] ty = "ChatPermissions" ->
            IF j.tag = "object" THEN ChatPermissions(j.num) ELSE InvalidType

DeserializeField(f, j) ==
    IF f.with THEN UnixDateOptionalDeserialize(j)
    ELSE IF f.opt /\ j.tag = "null" THEN None
    ELSE DeserializeValue(f.ty, j)

\* Default::default() of the field's type
DefaultValue(f) ==
    IF f.opt THEN None
    ELSE CASE f.ty = "i64" -> I64(0)
           [] f.ty = "i32" -> I32(0)
           [] f.ty = "bool" -> Bool(FALSE)
           [] f.ty = "String" -> String(<<>>)
           [] OTHER -> None

\* the key is not in the object: the default if the field declares one; an
\* error if it is decoded by a with-module; None for a plain Option; an error
\* for anything else
Missing(f) ==
    IF f.dflt THEN DefaultValue(f)
    ELSE IF f.with THEN MissingField
    ELSE IF f.opt THEN None
    ELSE MissingField

DecodeField(f, j) ==
    IF f.name \in DOMAIN j THEN DeserializeField(f, j[f.name]) ELSE Missing(f)

NoValue == [ k \in {} |-> None ]

Ok(v) == [ok |-> TRUE, err |-> "", val |-> v]
Err(e) == [ok |-> FALSE, err |-> e, val |-> NoValue]

\* keys that are not fields are ignored; a value of the wrong type is reported
\* while the object is read, a missing field once it has been read
Decode(s, j) ==
    LET got == [ n \in Names(s) |-> DecodeField(FieldOf(s, n), j) ]
    IN  IF \E n \in Names(s) : got[n] = InvalidType THEN Err("invalid_type")
        ELSE IF \E n \in Names(s) : got[n] = MissingField THEN Err("missing_field")
        ELSE Ok(got)

(***************************************************************************)
(* PromoteChatMember::new                                                  *)
(***************************************************************************)
\* is_anonymous left at false instead of None
PromoteChatMemberNewAnonymousFalse(chat_id, user_id) ==
    [ chat_id |-> I64(chat_id),
      user_id |-> I64(user_id),
      is_anonymous |-> Bool(FALSE),
      can_manage_chat |-> None,
      can_post_messages |-> None,
      can_edit_messages |-> None,
      can_delete_messages |-> None,
      can_restrict_members |-> None,
      can_promote_members |-> None,
      can_change_info |-> None,
      can_invite_users |-> None,
      can_pin_messages |-> None,
      can_manage_voice_chats |-> None ]

PromoteChatMemberNew(chat_id, user_id) ==
    [ chat_id |-> I64(chat_id),
      user_id |-> I64(user_id),
      is_anonymous |-> None,
      can_manage_chat |-> None,
      can_post_messages |-> None,
      can_edit_messages |-> None,
      can_delete_messages |-> None,
      can_restrict_members |-> None,
      can_promote_members |-> None,
      can_change_info |-> None,
      can_invite_users |-> None,
      can_pin_messages |-> None,
      can_manage_voice_chats |-> None ]

(***************************************************************************)
(* Chat (model/chat.rs): one of four variants, each with the chat's id and *)
(* attributes of its own; get_id answers the id whatever the variant.      *)
(***************************************************************************)
\* the `type` of a chat object that has no such key
NoType == "<absent>"

ChatVariants == { "Private", "Group", "SuperGroup", "Channel" }

Chat(v, i, t, l, p) ==
    [variant |-> v, id |-> i, title |-> t, invite_link |-> l, permissions |-> p]

NoChat == Chat("none", 0, 0, 0, 0)

GetId(chat) == chat.id

\* the conversion carrying the invite link along
ImplFromChatWithLink(name, chat) ==
    [ chat_id |-> I64(GetId(chat)), invite_link |-> I64(chat.invite_link) ]

\* impl_from_chat!(name): From<Chat> for name
ImplFromChat(name, chat) == [ chat_id |-> I64(GetId(chat)) ]

(***************************************************************************)
(* RawChat -> Chat: the `type` key of the wire object selects the variant. *)
(* Chat has the four variants above and no catch-all, so any other tag,    *)
(* and a missing one, is a decode failure.                                 *)
(***************************************************************************)
\* an unknown tag taken for a group
ChatTypeOfLenient(tag) ==
    CASE tag = "private" -> "Private"
      [] tag = "supergroup" -> "SuperGroup"
      [] tag = "channel" -> "Channel"
      [] tag = NoType -> "none"
      [] OTHER -> "Group"

ChatTypeOf(tag) ==
    CASE tag = "private" -> "Private"
      [] tag = "group" -> "Group"
      [] tag = "supergroup" -> "SuperGroup"
      [] tag = "channel" -> "Channel"
      [] OTHER -> "none"

ChatOk(c) == [ok |-> TRUE, chat |-> c]
ChatErr == [ok |-> FALSE, chat |-> NoChat]

DecodeChat(raw) ==
    LET v == ChatTypeOf(raw.type)
    IN  IF v \in ChatVariants
        THEN ChatOk(Chat(v, raw.id, raw.title, raw.invite_link, raw.permissions))
        ELSE ChatErr

(***************************************************************************)
(* RawUpdate -> Update: the variant is the one whose optional field is     *)
(* populated.  The payload is the sequence of populated keys in the order  *)
(* they arrive; RawUpdate keeps which of its Option fields are Some.       *)
(* With none populated decoding fails; with several, the policy in force   *)
(* decides: "fail", or "precedence" in the order of UpdateContentOrder.    *)
(***************************************************************************)
UpdateContentOrder == << "message", "edited_message", "callback_query", "poll" >>

UpdateFields == { UpdateContentOrder[i] : i \in 1..Len(UpdateContentOrder) }

Policies == { "fail", "precedence" }

Populated(payload) == { payload[i] : i \in 1..Len(payload) }

FirstByPrecedence(raw) ==
    LET i == CHOOSE i \in 1..Len(UpdateContentOrder) :
                /\ UpdateContentOrder[i] \in raw
                /\ \A j \in 1..(i - 1) : UpdateContentOrder[j] \notin raw
    IN  UpdateContentOrder[i]

UpdateOk(v) == [ok |-> TRUE, content |-> v]
UpdateErr == [ok |-> FALSE, content |-> "none"]

\* with several fields populated, the one that arrives first wins
DecodeUpdateFirstSeen(policy, payload) ==
    IF payload = << >> THEN UpdateErr
    ELSE IF Len(payload) > 1 /\ policy = "fail" THEN UpdateErr
    ELSE UpdateOk(payload[1])

DecodeUpdate(policy, payload) ==
    LET raw == Populated(payload)
    IN  IF raw = {} THEN UpdateErr
        ELSE IF Cardinality(raw) = 1 THEN UpdateOk(CHOOSE f \in raw : TRUE)
        ELSE IF policy = "fail" THEN UpdateErr
        ELSE UpdateOk(FirstByPrecedence(raw))

(***************************************************************************)
(* The inputs explored.                                                    *)
(***************************************************************************)
Ids == 0..MaxId

Chars(n) == [ i \in 1..n |-> 97 ]

StringLengths(name) ==
    CASE name = "title" -> { 0, 1, TitleMax, TitleMax + 1 }
      [] name = "description" -> { 0, DescriptionMax, DescriptionMax + 1 }
      [] name = "custom_title" -> { 0, CustomTitleMax, CustomTitleMax + 1 }
      [] OTHER -> { 1 }

\* the values a field can hold when it is present
SomeValues(f) ==
    CASE f.ty = "i64" -> { I64(n) : n \in Ids }
      [] f.ty = "i32" -> { I32(n) : n \in { 0, 1, MemberLimitMax, MemberLimitMax + 1 } }
      [] f.ty = "bool" -> { Bool(b) : b \in BOOLEAN }
      [] f.ty = "String" -> { String(Chars(n)) : n \in StringLengths(f.name) }
      [] f.ty = "ChatPermissions" -> { ChatPermissions(k) : k \in Ids }
      [] f.ty = "DateTime" -> { DateTime(s, n) : s \in Ids, n \in 0..1 }

\* the least and the greatest of them
Below(v, w) ==
    \/ v.num < w.num
    \/ v.num = w.num /\ v.sub < w.sub
    \/ v.num = w.num /\ v.sub = w.sub /\ Len(v.str) <= Len(w.str)

Extremes(f) ==
    LET vs == SomeValues(f)
    IN  { v \in vs : (\A w \in vs : Below(v, w)) \/ (\A w \in vs : Below(w, v)) }

Least(f) == CHOOSE v \in Extremes(f) : \A w \in Extremes(f) : Below(v, w)
Greatest(f) == CHOOSE v \in Extremes(f) : \A w \in Extremes(f) : Below(w, v)

\* which optional fields are present: at most MaxPresent of them, or all
PresenceSets(s) ==
    { P \in SUBSET OptionalNames(s) :
        Cardinality(P) <= MaxPresent \/ P = OptionalNames(s) }

\* the values of the fields 1..i of s with the optional fields P present;
\* pick is "any" value of each field, or the "least" or "greatest" of each
\* optional one
RECURSIVE ValuesUpTo(_, _, _, _)
ValuesUpTo(s, P, i, pick) ==
    IF i = 0 THEN { NoValue }
    ELSE LET f == Fields(s)[i]
             vs == IF f.opt /\ f.name \notin P THEN { None }
                   ELSE IF ~f.opt \/ pick = "any" THEN SomeValues(f)
                   ELSE IF pick = "least" THEN { Least(f) }
                   ELSE { Greatest(f) }
         IN  { x @@ (f.name :> v) : x \in ValuesUpTo(s, P, i - 1, pick), v \in vs }

\* the values of struct s: with up to MaxPresent optional fields present,
\* any value of each; with more, all present and all least or all greatest
Values(s) ==
    UNION { IF Cardinality(P) <= MaxPresent
            THEN ValuesUpTo(s, P, Len(Fields(s)), "any")
            ELSE ValuesUpTo(s, P, Len(Fields(s)), "least") \cup
                 ValuesUpTo(s, P, Len(Fields(s)), "greatest")
            : P \in PresenceSets(s) }

\* a JSON value of the type the field expects, and one of another type
Sample(f) ==
    CASE f.ty \in {"i64", "i32", "DateTime"} -> JNumber(1)
      [] f.ty = "bool" -> JBool(TRUE)
      [] f.ty = "String" -> JString(Chars(1))
      [] f.ty = "ChatPermissions" -> JObject(1)

Mistyped(f) ==
    IF f.ty \in {"i64", "i32", "DateTime"} THEN JString(Chars(1)) ELSE JNumber(1)

Deviations == { "missing", "null", "mistyped" }

\* the payloads received for struct s: every key present and well typed, but
\* for at most MaxDeviate keys that are left out, null or of another type
Payloads(s) ==
    LET Ds == { D \in SUBSET Names(s) : Cardinality(D) <= MaxDeviate }
        Payload(D, how) ==
            [ n \in Names(s) \ { d \in D : how[d] = "missing" } |->
                IF n \notin D THEN Sample(FieldOf(s, n))
                ELSE IF how[n] = "null" THEN JNull
                ELSE Mistyped(FieldOf(s, n)) ]
    IN  UNION { { Payload(D, how) : how \in [D -> Deviations] } : D \in Ds }

Chats ==
    { Chat(v, i, t, l, p) : v \in ChatVariants, i \in Ids,
                            t \in 0..1, l \in 0..1, p \in 0..1 }

WireTypes == { "private", "group", "supergroup", "channel", "forum", NoType }

RawChats ==
    [ type : WireTypes, id : Ids, title : 0..1, invite_link : 0..1,
      permissions : 0..1 ]

RECURSIVE OrderedUpTo(_)
OrderedUpTo(n) ==
    IF n = 0 THEN { << >> }
    ELSE LET shorter == OrderedUpTo(n - 1)
         IN  shorter \cup
             { Append(q, f) : q \in { r \in shorter : Len(r) = n - 1 },
                              f \in UpdateFields }

\* the update payloads: up to MaxPopulated distinct keys, in any order
UpdatePayloads ==
    { q \in OrderedUpTo(MaxPopulated) : Cardinality(Populated(q)) = Len(q) }

(***************************************************************************)
(* State.                                                                  *)
(***************************************************************************)
VARIABLES
    entry,      \* what is exercised: "request", "payload", "new", "convert",
                \* "chat" or "update"
    pc,         \* how far it got
    args,       \* the arguments of PromoteChatMember::new
    struct,     \* the request struct in hand
    x,          \* the request value
    wire,       \* its JSON object, or the JSON object received
    out,        \* what the JSON object decodes to
    echo,       \* a decoded payload, encoded again
    chat,       \* the Chat a request is made from
    rawchat,    \* a chat as received
    chatres,    \* what it decodes to
    policy,     \* the update policy in force
    payload,    \* an update as received
    update      \* what it decodes to

vars ==
    << entry, pc, args, struct, x, wire, out, echo, chat, rawchat, chatres,
       policy, payload, update >>

NoOut == Err("")
NoRawChat ==
    [type |-> NoType, id |-> 0, title |-> 0, invite_link |-> 0, permissions |-> 0]

\* nothing built, sent or decoded yet
NoTraffic == wire = NoValue /\ out = NoOut /\ echo = NoValue
NoChatInput == chat = NoChat /\ rawchat = NoRawChat /\ chatres = ChatErr
NoUpdateInput == policy = "fail" /\ payload = << >> /\ update = UpdateErr

\* the ids PromoteChatMember::new is called with
NewIds == Ids \cup { -1, 111, 222 }

\* a request value as a caller writes it
InitRequest ==
    /\ entry = "request" /\ pc = "built" /\ args = << >>
    /\ struct \in Structs
    /\ x \in Values(struct)
    /\ NoTraffic /\ NoChatInput /\ NoUpdateInput

\* a JSON object that arrives for a request struct
InitPayload ==
    /\ entry = "payload" /\ pc = "received" /\ args = << >>
    /\ struct \in Structs
    /\ wire \in Payloads(struct)
    /\ x = NoValue /\ out = NoOut /\ echo = NoValue
    /\ NoChatInput /\ NoUpdateInput

\* a call of PromoteChatMember::new
InitNew ==
    /\ entry = "new" /\ pc = "start"
    /\ args \in NewIds \X NewIds
    /\ struct = "" /\ x = NoValue
    /\ NoTraffic /\ NoChatInput /\ NoUpdateInput

\* a Chat to make a request from
InitConvert ==
    /\ entry = "convert" /\ pc = "start" /\ args = << >>
    /\ chat \in Chats
    /\ rawchat = NoRawChat /\ chatres = ChatErr
    /\ struct = "" /\ x = NoValue
    /\ NoTraffic /\ NoUpdateInput

\* a chat object that arrives
InitChat ==
    /\ entry = "chat" /\ pc = "start" /\ args = << >>
    /\ rawchat \in RawChats
    /\ chat = NoChat /\ chatres = ChatErr
    /\ struct = "" /\ x = NoValue
    /\ NoTraffic /\ NoUpdateInput

\* an update object that arrives
InitUpdate ==
    /\ entry = "update" /\ pc = "start" /\ args = << >>
    /\ policy \in Policies
    /\ payload \in UpdatePayloads
    /\ update = UpdateErr
    /\ struct = "" /\ x = NoValue
    /\ NoTraffic /\ NoChatInput

Init ==
    \/ InitRequest
    \/ InitPayload
    \/ InitNew
    \/ InitConvert
    \/ InitChat
    \/ InitUpdate

(***************************************************************************)
(* Operations.                                                             *)
(***************************************************************************)
\* PromoteChatMember::new(chat_id, user_id)
New ==
    /\ entry = "new" /\ pc = "start"
    /\ struct' = "PromoteChatMember"
    /\ x' = PromoteChatMemberNew(args[1], args[2])
    /\ pc' = "built"
    /\ UNCHANGED << entry, args, wire, out, echo, chat, rawchat, chatres,
                    policy, payload, update >>

\* name::from(chat)
FromChat(name) ==
    /\ entry = "convert" /\ pc = "start"
    /\ struct' = name
    /\ x' = ImplFromChat(name, chat)
    /\ pc' = "built"
    /\ UNCHANGED << entry, args, wire, out, echo, chat, rawchat, chatres,
                    policy, payload, update >>

\* serde_json::to_value(&x)
Serialize ==
    /\ pc = "built"
    /\ wire' = Encode(struct, x)
    /\ pc' = "encoded"
    /\ UNCHANGED << entry, args, struct, x, out, echo, chat, rawchat, chatres,
                    policy, payload, update >>

\* serde_json::from_value(wire)
Deserialize ==
    /\ pc \in { "encoded", "received" }
    /\ out' = Decode(struct, wire)
    /\ pc' = "decoded"
    /\ UNCHANGED << entry, args, struct, x, wire, echo, chat, rawchat, chatres,
                    policy, payload, update >>

\* serde_json::to_value(&out) of a payload that decoded
Reserialize ==
    /\ entry = "payload" /\ pc = "decoded" /\ out.ok
    /\ echo' = Encode(struct, out.val)
    /\ pc' = "echoed"
    /\ UNCHANGED << entry, args, struct, x, wire, out, chat, rawchat, chatres,
                    policy, payload, update >>

\* Chat from the RawChat received
ChatFromRaw ==
    /\ entry = "chat" /\ pc = "start"
    /\ chatres' = DecodeChat(rawchat)
    /\ pc' = "done"
    /\ UNCHANGED << entry, args, struct, x, wire, out, echo, chat, rawchat,
                    policy, payload, update >>

\* Update from the RawUpdate received
UpdateFromRaw ==
    /\ entry = "update" /\ pc = "start"
    /\ update' = DecodeUpdate(policy, payload)
    /\ pc' = "done"
    /\ UNCHANGED << entry, args, struct, x, wire, out, echo, chat, rawchat,
                    chatres, policy, payload >>

Next ==
    \/ New
    \/ \E name \in ChatIdOnly : FromChat(name)
    \/ Serialize
    \/ Deserialize
    \/ Reserialize
    \/ ChatFromRaw
    \/ UpdateFromRaw

Spec == Init /\ [][Next]_vars

(***************************************************************************)
(* What the properties below read.                                         *)
(***************************************************************************)
\* a request value was built by the caller, by new or by from, and not decoded
\* from a payload
Outgoing == entry \in { "request", "new", "convert" }

\* the JSON type a field of type ty is written as
JsonTag(ty) ==
    CASE ty \in { "i64", "i32", "DateTime" } -> "number"
      [] ty = "bool" -> "boolean"
      [] ty = "String" -> "string"
      [] ty = "ChatPermissions" -> "object"

\* key n of object j holds a value the field accepts
WellTyped(s, n, j) ==
    \/ j[n].tag = JsonTag(FieldOf(s, n).ty)
    \/ FieldOf(s, n).opt /\ j[n].tag = "null"

\* Some(false), Some(0), Some("")
Falsy(v) == v.tag # "none" /\ v.num = 0 /\ v.str = << >>

PermissionFlags ==
    { "is_anonymous", "can_manage_chat", "can_post_messages",
      "can_edit_messages", "can_delete_messages", "can_restrict_members",
      "can_promote_members", "can_change_info", "can_invite_users",
      "can_pin_messages", "can_manage_voice_chats" }

(***************************************************************************)
(* Properties.                                                             *)
(***************************************************************************)

\* C1: a request value that is encoded and decoded again comes back: the
\* decode succeeds and yields the value that was encoded, whichever of its
\* optional fields are present.
RoundTrip ==
    (Outgoing /\ pc = "decoded") => (out.ok /\ out.val = x)

\* C2: an optional field that is None leaves no key in the encoded object,
\* for every struct with optional fields.
AbsentIsOmitted ==
    pc = "encoded" =>
        \A n \in OptionalNames(struct) : x[n] = None => n \notin DOMAIN wire

\* C3: PromoteChatMember::new(c, u) has chat_id c, user_id u and each of the
\* eleven permission flags None, and it encodes to an object with the keys
\* chat_id and user_id and no other.
NewLeavesFlagsUnset ==
    (entry = "new" /\ pc # "start") =>
        /\ struct = "PromoteChatMember"
        /\ DOMAIN x = { "chat_id", "user_id" } \cup PermissionFlags
        /\ x["chat_id"] = I64(args[1])
        /\ x["user_id"] = I64(args[2])
        /\ \A n \in PermissionFlags : x[n] = None
        /\ pc \in { "encoded", "decoded" } =>
              /\ DOMAIN wire = { "chat_id", "user_id" }
              /\ wire["chat_id"] = JNumber(args[1])
              /\ wire["user_id"] = JNumber(args[2])

NewWitness ==
    entry = "new" /\ pc = "encoded" /\ args = << 111, 222 >>

\* C4: from(chat) is defined for each of the eight chat-id-only structs and
\* for a chat of any variant, and the request it makes has the chat's id as
\* its chat_id and no other field, whatever the chat's other attributes.
FromChatKeepsOnlyId ==
    /\ (entry = "convert" /\ pc = "start") =>
          \A name \in ChatIdOnly : ENABLED FromChat(name)
    /\ (entry = "convert" /\ pc # "start") =>
          /\ struct \in ChatIdOnly
          /\ DOMAIN x = { "chat_id" }
          /\ x["chat_id"] = I64(chat.id)

FromChatWitness ==
    /\ entry = "convert" /\ pc = "built" /\ struct = "LeaveChat"
    /\ chat.variant = "Channel" /\ chat.id = 1 /\ chat.title = 1
    /\ chat.invite_link = 1 /\ chat.permissions = 1

\* C5: a present optional field is written even when its value is false, 0
\* or empty, with that value; None of a permission flag or of
\* revoke_messages leaves no key; so a value and the same value with one
\* falsy optional field set to None never encode to the same object.
FalsyIsNotUnset ==
    pc = "encoded" =>
        \A n \in OptionalNames(struct) :
            /\ Falsy(x[n]) =>
                  /\ n \in DOMAIN wire
                  /\ wire[n].tag = JsonTag(FieldOf(struct, n).ty)
                  /\ wire[n].num = 0 /\ wire[n].str = << >>
                  /\ Encode(struct, [x EXCEPT ![n] = None]) # wire
            /\ (x[n] = None /\ n \in PermissionFlags \cup { "revoke_messages" })
                  => n \notin DOMAIN wire

FalsyWitness ==
    /\ pc = "encoded" /\ struct = "PromoteChatMember"
    /\ x["can_pin_messages"] = Bool(FALSE) /\ x["is_anonymous"] = None

\* C6: a payload in which a required field is missing or of the wrong type
\* does not decode and yields no value; a payload whose keys are all of the
\* right type and whose required keys are all there decodes, whichever
\* optional keys are missing.
DecodeFailsOnlyOnRequired ==
    pc = "decoded" =>
        LET present == DOMAIN wire \cap Names(struct)
            bad == \/ \E n \in RequiredNames(struct) : n \notin DOMAIN wire
                   \/ \E n \in present : ~WellTyped(struct, n, wire)
        IN  /\ bad => (~out.ok /\ out.val = NoValue)
            /\ ~bad => out.ok

\* the half of C6 that is about required fields and types alone
DecodeFailsOnRequired ==
    pc = "decoded" =>
        LET present == DOMAIN wire \cap Names(struct)
            bad == \/ \E n \in RequiredNames(struct) : n \notin DOMAIN wire
                   \/ \E n \in present : ~WellTyped(struct, n, wire)
        IN  bad => (~out.ok /\ out.val = NoValue)

\* C7: encoding is defined for every request value, and a string or a
\* member_limit outside its documented limit is written as it is.
NoLocalValidation ==
    /\ pc = "built" => ENABLED Serialize
    /\ pc = "encoded" =>
          \A n \in Names(struct) :
              /\ x[n].tag = "String" => (n \in DOMAIN wire /\ wire[n] = JString(x[n].str))
              /\ x[n].tag = "i32" => (n \in DOMAIN wire /\ wire[n] = JNumber(x[n].num))

OverLimitWitness ==
    /\ pc = "encoded"
    /\ \/ struct = "SetChatTitle" /\ Len(x["title"].str) > TitleMax
       \/ struct = "CreateChatInviteLink" /\ x["member_limit"].num > MemberLimitMax

\* C8: a chat object decodes to the variant its `type` names and to no
\* other; a `type` outside the four known ones (there is no catch-all
\* variant), or none, is a decode failure and never one of the four.
ChatVariantFollowsType ==
    (entry = "chat" /\ pc = "done") =>
        /\ rawchat.type = "private" => (chatres.ok /\ chatres.chat.variant = "Private")
        /\ rawchat.type = "group" => (chatres.ok /\ chatres.chat.variant = "Group")
        /\ rawchat.type = "supergroup" =>
              (chatres.ok /\ chatres.chat.variant = "SuperGroup")
        /\ rawchat.type = "channel" => (chatres.ok /\ chatres.chat.variant = "Channel")
        /\ rawchat.type \notin { "private", "group", "supergroup", "channel" } =>
              (~chatres.ok /\ chatres.chat.variant \notin ChatVariants)
        /\ chatres.ok => chatres.chat.id = rawchat.id

ChatVariantWitness ==
    entry = "chat" /\ pc = "done" /\ rawchat.type = "forum" /\ ~chatres.ok

\* C9: an update with no discriminating field populated does not decode;
\* with one, it decodes to that field's variant; with several, the outcome
\* is the same for every order of the same fields.
UpdateIsExclusive ==
    (entry = "update" /\ pc = "done") =>
        LET raw == Populated(payload)
        IN  /\ raw = {} => ~update.ok
            /\ Cardinality(raw) = 1 => (update.ok /\ update.content \in raw)
            /\ \A q \in UpdatePayloads :
                  Populated(q) = raw => DecodeUpdate(policy, q) = update

UpdateWitness ==
    /\ entry = "update" /\ pc = "done" /\ policy = "precedence"
    /\ payload = << "poll", "message" >> /\ update.ok

\* C10: an UnbanChatMember payload with chat_id and user_id and without
\* only_if_banned decodes, to only_if_banned = false; every UnbanChatMember
\* is written with the only_if_banned key; so decoding and encoding such a
\* payload adds `only_if_banned: false` to it.
OnlyIfBannedDefaults ==
    struct = "UnbanChatMember" =>
        LET bare == /\ entry = "payload"
                    /\ DOMAIN wire = { "chat_id", "user_id" }
                    /\ \A n \in DOMAIN wire : wire[n].tag = "number"
        IN  /\ (pc \in { "decoded", "echoed" } /\ bare) =>
                  (out.ok /\ out.val["only_if_banned"] = Bool(FALSE))
            /\ (pc = "echoed" /\ bare) =>
                  echo = wire @@ ("only_if_banned" :> JBool(FALSE))
            /\ (Outgoing /\ pc = "encoded") =>
                  /\ "only_if_banned" \in DOMAIN wire
                  /\ wire["only_if_banned"] = JBool(x["only_if_banned"] = Bool(TRUE))
            /\ pc = "echoed" => "only_if_banned" \in DOMAIN echo

OnlyIfBannedWitness ==
    /\ struct = "UnbanChatMember" /\ entry = "payload" /\ pc = "echoed"
    /\ DOMAIN wire = { "chat_id", "user_id" }
    /\ echo["only_if_banned"] = JBool(FALSE)

====
